---- MODULE Spec2Model ----
(***************************************************************************)
(* Device-licensing gate (src/main.py): the devices table, the public      *)
(* check-in endpoint and the token-gated admin endpoints.                  *)
(*                                                                         *)
(* Every request opens its own sqlite3 connection (get_db).  The sqlite3   *)
(* module opens a transaction only in front of INSERT/UPDATE, so the       *)
(* SELECT of api_check and its later INSERT OR REPLACE / UPDATE are two    *)
(* separate atomic steps, and other requests can commit between them.      *)
(* Each admin endpoint runs one statement and is one atomic step.          *)
(***************************************************************************)
EXTENDS Integers, Sequences, FiniteSets, TLC

\* ------------------------------------------------------------------ bounds
MaxReqs == 4        \* requests started in one behaviour
MaxTime == 1        \* largest value of the wall clock (seconds)
MaxInFlight == 2    \* check-ins between their SELECT and their write

\* ------------------------------------------------------------ input domains
NULL == "<null>"                      \* Python None / SQL NULL
\* (company_key, device_id) pairs of the request bodies; " " and "" are blank
ReqKeys == {<<"acme", "d1">>, <<"acme", "">>, <<" ", "d1">>}
CompanyKeys == {k[1] : k \in ReqKeys}
Tokens == {NULL, "", "s3cret"}        \* X-Admin-Token header (NULL: missing)
AdminTokens == {"", "s3cret"}         \* values of the ADMIN_TOKEN environment
Statuses == {"PENDING", "AUTHORIZED", "REVOKED"}
Fields == {"hostname", "pc_name", "requester_name", "establishment"}

\* Metadata carried by a check-in body (CheckPayload optional fields).
Metadatas ==
  { [hostname |-> "PC-7", pc_name |-> "",     requester_name |-> NULL,   establishment |-> ""],
    [hostname |-> "PC-9", pc_name |-> "PC-7", requester_name |-> "PC-7", establishment |-> NULL] }

VARIABLES
  ADMIN_TOKEN,   \* configured shared secret, read once at start-up
  devices,       \* the devices table: a set of rows
  now,           \* wall clock in seconds
  inflight,      \* check-ins that ran their SELECT and not yet their write
  last,          \* the most recently completed request and its response
  nreq,          \* number of requests started
  lastAdmin,     \* per key: status set by the last successful admin action
  checkedIn,     \* keys of the check-ins that have completed
  ops            \* log of the statements run (kept by RaceSpec only)

vars == <<ADMIN_TOKEN, devices, now, inflight, last, nreq, lastAdmin, checkedIn, ops>>

Slots == 1..MaxInFlight
Idle == [st |-> "idle"]
NoRow == "<no row>"

\* ------------------------------------------------------------------ helpers
now_ts == now

KeyOf(r) == <<r.company_key, r.device_id>>

RowsOf(db, ck, did) == {r \in db : r.company_key = ck /\ r.device_id = did}

\* variant: the empty ADMIN_TOKEN is not treated as "reject everything"
require_admin_fail_open(x_admin_token) ==
  x_admin_token # ADMIN_TOKEN

\* x_admin_token is rejected (HTTP 401 raised)
require_admin(x_admin_token) ==
  ADMIN_TOKEN = "" \/ x_admin_token # ADMIN_TOKEN

\* variant: the arguments of NULLIF are swapped
FillIfEmpty_swapped(stored, incoming) ==
  IF (IF "" = stored THEN "<null>" ELSE "") # "<null>"
    THEN (IF "" = stored THEN "<null>" ELSE "")
    ELSE incoming

\* COALESCE(NULLIF(stored, ''), incoming)
NULLIF(a, b) == IF a = b THEN NULL ELSE a
COALESCE(a, b) == IF a # NULL THEN a ELSE b
FillIfEmpty(stored, incoming) == COALESCE(NULLIF(stored, ""), incoming)

\* variant: the first check-in stores the device as already authorized
NewDeviceRow_authorized(ck, did, meta, t1, t2) ==
  [company_key |-> ck, device_id |-> did,
   hostname |-> meta.hostname, pc_name |-> meta.pc_name,
   requester_name |-> meta.requester_name, establishment |-> meta.establishment,
   status |-> "AUTHORIZED", created_at |-> t1, updated_at |-> t2]

\* the row bound by the INSERT OR REPLACE of api_check
NewDeviceRow(ck, did, meta, t1, t2) ==
  [company_key |-> ck, device_id |-> did,
   hostname |-> meta.hostname, pc_name |-> meta.pc_name,
   requester_name |-> meta.requester_name, establishment |-> meta.establishment,
   status |-> "PENDING", created_at |-> t1, updated_at |-> t2]

\* variant: a plain INSERT into a table without the primary key
InsertOrReplace_no_key(db, row) ==
  db \cup {row}

\* INSERT OR REPLACE under PRIMARY KEY (company_key, device_id)
InsertOrReplace(db, row) ==
  (db \ RowsOf(db, row.company_key, row.device_id)) \cup {row}

\* variant: the metadata UPDATE also writes status back to PENDING
UpdateMetadata_resets_status(db, ck, did, meta, t) ==
  { IF r.company_key = ck /\ r.device_id = did
      THEN [r EXCEPT !.hostname = FillIfEmpty(r.hostname, meta.hostname),
                     !.pc_name = FillIfEmpty(r.pc_name, meta.pc_name),
                     !.requester_name = FillIfEmpty(r.requester_name, meta.requester_name),
                     !.establishment = FillIfEmpty(r.establishment, meta.establishment),
                     !.status = "PENDING",
                     !.updated_at = t]
      ELSE r : r \in db }

\* the metadata UPDATE of api_check
UpdateMetadata(db, ck, did, meta, t) ==
  { IF r.company_key = ck /\ r.device_id = did
      THEN [r EXCEPT !.hostname = FillIfEmpty(r.hostname, meta.hostname),
                     !.pc_name = FillIfEmpty(r.pc_name, meta.pc_name),
                     !.requester_name = FillIfEmpty(r.requester_name, meta.requester_name),
                     !.establishment = FillIfEmpty(r.establishment, meta.establishment),
                     !.updated_at = t]
      ELSE r : r \in db }

\* variant: the status UPDATE matches on company_key alone
UpdateStatus_whole_company(db, ck, did, status, t) ==
  { IF r.company_key = ck
      THEN [r EXCEPT !.status = status, !.updated_at = t]
      ELSE r : r \in db }

\* UPDATE devices SET status=?, updated_at=? WHERE company_key=? AND device_id=?
UpdateStatus(db, ck, did, status, t) ==
  { IF r.company_key = ck /\ r.device_id = did
      THEN [r EXCEPT !.status = status, !.updated_at = t]
      ELSE r : r \in db }

\* ---------------------------------------------------------------- responses
NoResp == [op |-> "none", company_key |-> NULL, device_id |-> NULL, token |-> NULL,
           code |-> 0, authorized |-> FALSE, status |-> NULL, rows |-> <<>>]

Init ==
  /\ ADMIN_TOKEN \in AdminTokens
  /\ devices = {}
  /\ now = 0
  /\ inflight = [s \in Slots |-> Idle]
  /\ last = NoResp
  /\ nreq = 0
  /\ lastAdmin = [k \in ReqKeys |-> "none"]
  /\ checkedIn = {}
  /\ ops = <<>>

\* variant: only REVOKED is refused, a PENDING device may run
CheckVerdict_pending_runs(status) ==
  IF status # "REVOKED"
    THEN [authorized |-> TRUE, status |-> NULL]
    ELSE [authorized |-> FALSE, status |-> status]

\* the verdict api_check returns for the status it read
CheckVerdict(status) ==
  IF status = "AUTHORIZED"
    THEN [authorized |-> TRUE, status |-> NULL]
    ELSE [authorized |-> FALSE, status |-> status]

CheckResp(c, v) ==
  [op |-> "check", company_key |-> c.company_key, device_id |-> c.device_id,
   token |-> NULL, code |-> 200,
   authorized |-> v.authorized, status |-> v.status, rows |-> <<>>]

AdminResp(op, ck, did, tok, code, rows) ==
  [op |-> op, company_key |-> ck, device_id |-> did, token |-> tok,
   code |-> code, authorized |-> FALSE, status |-> NULL, rows |-> rows]

\* variant: the SELECT matches on company_key alone
SelectStatus_any_device(db, ck, did) ==
  IF {r \in db : r.company_key = ck} = {} THEN {NoRow}
  ELSE {r.status : r \in {r2 \in db : r2.company_key = ck}}

\* SELECT status FROM devices WHERE company_key=? AND device_id=?; fetchone()
SelectStatus(db, ck, did) ==
  IF RowsOf(db, ck, did) = {} THEN {NoRow}
  ELSE {r.status : r \in RowsOf(db, ck, did)}

\* POST /api/check, first statement: SELECT status ... ; row = cur.fetchone()
api_check_select(s, ck, did, meta) ==
  /\ nreq < MaxReqs
  /\ inflight[s] = Idle
  /\ \A s2 \in Slots : s2 < s => inflight[s2] # Idle
  /\ \E row \in SelectStatus(devices, ck, did) :
       inflight' = [inflight EXCEPT ![s] =
                      [st |-> "selected", company_key |-> ck, device_id |-> did,
                       meta |-> meta, row |-> row]]
  /\ nreq' = nreq + 1
  /\ UNCHANGED <<ADMIN_TOKEN, devices, now, last, lastAdmin, checkedIn>>

\* POST /api/check, branch row is None: INSERT OR REPLACE ... 'PENDING'; commit
api_check_insert(s) ==
  /\ inflight[s] # Idle
  /\ inflight[s].row = NoRow
  /\ LET c == inflight[s] IN
     \E t2 \in {now, now + 1} :
       /\ t2 <= MaxTime
       /\ devices' = InsertOrReplace(devices,
                        NewDeviceRow(c.company_key, c.device_id, c.meta, now_ts, t2))
       /\ now' = t2
       /\ last' = CheckResp(c, [authorized |-> FALSE, status |-> "PENDING"])
       /\ checkedIn' = checkedIn \cup {<<c.company_key, c.device_id>>}
  /\ inflight' = [inflight EXCEPT ![s] = Idle]
  /\ UNCHANGED <<ADMIN_TOKEN, nreq, lastAdmin>>

\* POST /api/check, branch row found: UPDATE metadata; commit; verdict from row[0]
api_check_update(s) ==
  /\ inflight[s] # Idle
  /\ inflight[s].row # NoRow
  /\ LET c == inflight[s] IN
       /\ devices' = UpdateMetadata(devices, c.company_key, c.device_id, c.meta, now_ts)
       /\ last' = CheckResp(c, CheckVerdict(c.row))
       /\ checkedIn' = checkedIn \cup {<<c.company_key, c.device_id>>}
  /\ inflight' = [inflight EXCEPT ![s] = Idle]
  /\ UNCHANGED <<ADMIN_TOKEN, now, nreq, lastAdmin>>

\* variant: a REVOKED device cannot be authorized again
admin_authorize_one_way(db, ck, did, x_admin_token, t) ==
  IF require_admin(x_admin_token) THEN [code |-> 401, db |-> db]
  ELSE IF RowsOf(db, ck, did) = {} THEN [code |-> 404, db |-> db]
  ELSE IF \E r \in RowsOf(db, ck, did) : r.status = "REVOKED"
    THEN [code |-> 409, db |-> db]
  ELSE [code |-> 200, db |-> UpdateStatus(db, ck, did, "AUTHORIZED", t)]

\* variant: authorize creates the row it does not find
admin_authorize_upsert(db, ck, did, x_admin_token, t) ==
  IF require_admin(x_admin_token) THEN [code |-> 401, db |-> db]
  ELSE IF RowsOf(db, ck, did) = {}
    THEN [code |-> 200,
          db |-> db \cup {[company_key |-> ck, device_id |-> did,
                           hostname |-> NULL, pc_name |-> NULL,
                           requester_name |-> NULL, establishment |-> NULL,
                           status |-> "AUTHORIZED", created_at |-> t, updated_at |-> t]}]
  ELSE [code |-> 200, db |-> UpdateStatus(db, ck, did, "AUTHORIZED", t)]

\* POST /admin/device/authorize: the response code and the table it leaves
admin_authorize(db, ck, did, x_admin_token, t) ==
  IF require_admin(x_admin_token) THEN [code |-> 401, db |-> db]
  ELSE IF RowsOf(db, ck, did) = {} THEN [code |-> 404, db |-> db]
  ELSE [code |-> 200, db |-> UpdateStatus(db, ck, did, "AUTHORIZED", t)]

\* variant: revoke looks the device up before it checks the token
admin_revoke_lookup_first(db, ck, did, x_admin_token, t) ==
  IF RowsOf(db, ck, did) = {} THEN [code |-> 404, db |-> db]
  ELSE IF require_admin(x_admin_token) THEN [code |-> 401, db |-> db]
  ELSE [code |-> 200, db |-> UpdateStatus(db, ck, did, "REVOKED", t)]

\* POST /admin/device/revoke: the response code and the table it leaves
admin_revoke(db, ck, did, x_admin_token, t) ==
  IF require_admin(x_admin_token) THEN [code |-> 401, db |-> db]
  ELSE IF RowsOf(db, ck, did) = {} THEN [code |-> 404, db |-> db]
  ELSE [code |-> 200, db |-> UpdateStatus(db, ck, did, "REVOKED", t)]

AdminAuthorize(ck, did, tok) ==
  /\ nreq < MaxReqs
  /\ LET out == admin_authorize(devices, ck, did, tok, now_ts) IN
       /\ devices' = out.db
       /\ last' = AdminResp("authorize", ck, did, tok, out.code, <<>>)
       /\ lastAdmin' = IF out.code = 200
                         THEN [lastAdmin EXCEPT ![<<ck, did>>] = "AUTHORIZED"]
                         ELSE lastAdmin
  /\ nreq' = nreq + 1
  /\ UNCHANGED <<ADMIN_TOKEN, now, inflight, checkedIn>>

AdminRevoke(ck, did, tok) ==
  /\ nreq < MaxReqs
  /\ LET out == admin_revoke(devices, ck, did, tok, now_ts) IN
       /\ devices' = out.db
       /\ last' = AdminResp("revoke", ck, did, tok, out.code, <<>>)
       /\ lastAdmin' = IF out.code = 200
                         THEN [lastAdmin EXCEPT ![<<ck, did>>] = "REVOKED"]
                         ELSE lastAdmin
  /\ nreq' = nreq + 1
  /\ UNCHANGED <<ADMIN_TOKEN, now, inflight, checkedIn>>

\* all orderings of a finite set of rows
RECURSIVE SeqsOf(_)
SeqsOf(S) ==
  IF S = {} THEN {<<>>}
  ELSE UNION {{<<x>> \o q : q \in SeqsOf(S \ {x})} : x \in S}

\* variant: ORDER BY updated_at ASC
OrderByUpdatedAtDesc_asc(rows) ==
  {q \in SeqsOf(rows) :
     \A i, j \in 1..Len(q) : i < j => q[i].updated_at <= q[j].updated_at}

\* ORDER BY updated_at DESC: rows with equal updated_at come in any order
OrderByUpdatedAtDesc(rows) ==
  {q \in SeqsOf(rows) :
     \A i, j \in 1..Len(q) : i < j => q[i].updated_at >= q[j].updated_at}

\* SELECT ... FROM devices WHERE company_key=?
WhereCompany(db, company_key) == {r \in db : r.company_key = company_key}

\* GET /admin/devices: the responses the request can produce
admin_list_devices(db, company_key, x_admin_token) ==
  IF require_admin(x_admin_token) THEN {[code |-> 401, rows |-> <<>>]}
  ELSE {[code |-> 200, rows |-> q] :
          q \in OrderByUpdatedAtDesc(WhereCompany(db, company_key))}

AdminListDevices(ck, tok) ==
  /\ nreq < MaxReqs
  /\ \E out \in admin_list_devices(devices, ck, tok) :
       last' = AdminResp("list", ck, NULL, tok, out.code, out.rows)
  /\ nreq' = nreq + 1
  /\ UNCHANGED <<ADMIN_TOKEN, devices, now, inflight, lastAdmin, checkedIn>>

\* time passes
Tick ==
  /\ now < MaxTime
  /\ now' = now + 1
  /\ UNCHANGED <<ADMIN_TOKEN, devices, inflight, last, nreq, lastAdmin, checkedIn>>

Next ==
  \/ Tick /\ UNCHANGED ops
  \/ \E s \in Slots, k \in ReqKeys, meta \in Metadatas :
       api_check_select(s, k[1], k[2], meta) /\ UNCHANGED ops
  \/ \E s \in Slots : api_check_insert(s) /\ UNCHANGED ops
  \/ \E s \in Slots : api_check_update(s) /\ UNCHANGED ops
  \/ \E k \in ReqKeys, tok \in Tokens :
       AdminAuthorize(k[1], k[2], tok) /\ UNCHANGED ops
  \/ \E k \in ReqKeys, tok \in Tokens :
       AdminRevoke(k[1], k[2], tok) /\ UNCHANGED ops
  \/ \E ck \in CompanyKeys, tok \in Tokens :
       AdminListDevices(ck, tok) /\ UNCHANGED ops

Spec == Init /\ [][Next]_vars

\* ------------------------------------------------------------------------
\* The requests on one key with a valid admin token, every statement logged.
RaceKey == <<"acme", "d1">>

Event(op, meta) == [op |-> op, meta |-> meta]

RaceInit ==
  /\ ADMIN_TOKEN = "s3cret"
  /\ devices = {}
  /\ now = 0
  /\ inflight = [s \in Slots |-> Idle]
  /\ last = NoResp
  /\ nreq = 0
  /\ lastAdmin = [k \in ReqKeys |-> "none"]
  /\ checkedIn = {}
  /\ ops = <<>>

RaceNext ==
  \/ Tick /\ UNCHANGED ops
  \/ \E s \in Slots, meta \in Metadatas :
       /\ api_check_select(s, RaceKey[1], RaceKey[2], meta)
       /\ ops' = Append(ops, Event("select", meta))
  \/ \E s \in Slots :
       /\ api_check_insert(s)
       /\ ops' = Append(ops, Event("insert", inflight[s].meta))
  \/ \E s \in Slots :
       /\ api_check_update(s)
       /\ ops' = Append(ops, Event("update", inflight[s].meta))
  \/ /\ AdminAuthorize(RaceKey[1], RaceKey[2], ADMIN_TOKEN)
     /\ ops' = Append(ops, Event("authorize", NULL))
  \/ /\ AdminRevoke(RaceKey[1], RaceKey[2], ADMIN_TOKEN)
     /\ ops' = Append(ops, Event("revoke", NULL))

RaceSpec == RaceInit /\ [][RaceNext]_vars

\* POST /api/check run alone: the SELECT and the write with nothing between
api_check(db, ck, did, meta, t) ==
  LET row == CHOOSE x \in SelectStatus(db, ck, did) : TRUE IN
  IF row = NoRow
    THEN [db |-> InsertOrReplace(db, NewDeviceRow(ck, did, meta, t, t)),
          verdict |-> [authorized |-> FALSE, status |-> "PENDING"]]
    ELSE [db |-> UpdateMetadata(db, ck, did, meta, t),
          verdict |-> CheckVerdict(row)]

\* the requests of the log that have run their write, in log order
IsWrite(e) == e.op # "select"
Requests(log) == SelectSeq(log, IsWrite)

\* the table after request e runs alone on db
ApplyRequest(db, e) ==
  IF e.op \in {"insert", "update"}
    THEN api_check(db, RaceKey[1], RaceKey[2], e.meta, 0).db
  ELSE IF e.op = "authorize"
    THEN admin_authorize(db, RaceKey[1], RaceKey[2], ADMIN_TOKEN, 0).db
  ELSE admin_revoke(db, RaceKey[1], RaceKey[2], ADMIN_TOKEN, 0).db

\* the table after the requests run one after the other in the given order
RECURSIVE RunSerial(_, _, _)
RunSerial(db, reqs, order) ==
  IF order = <<>> THEN db
  ELSE RunSerial(ApplyRequest(db, reqs[Head(order)]), reqs, Tail(order))

SerialOutcomes(reqs) ==
  {RunSerial({}, reqs, order) : order \in SeqsOf(1..Len(reqs))}

\* status and metadata of the rows of RaceKey
View(db) ==
  {[status |-> r.status, hostname |-> r.hostname, pc_name |-> r.pc_name,
    requester_name |-> r.requester_name, establishment |-> r.establishment] :
     r \in RowsOf(db, RaceKey[1], RaceKey[2])}

Quiescent == \A s \in Slots : inflight[s] = Idle
\* ===================================================================== steps
\* slot s runs the SELECT of a check-in in this step
SelectStep(s) == inflight[s] = Idle /\ inflight'[s] # Idle
\* slot s runs the write of its check-in and returns in this step
CheckDone(s) == inflight[s] # Idle /\ inflight'[s] = Idle
\* an admin request (authorize, revoke, list) runs in this step
AdminDone == nreq' = nreq + 1 /\ inflight' = inflight
\* the token of the header does not open the admin endpoints
BadToken(tok) == tok = NULL \/ tok # ADMIN_TOKEN \/ ADMIN_TOKEN = ""
HasValue(v) == v # NULL /\ v # ""

\* ==================================================================== claims

\* C1 (as claimed): the status of a stored row changes only in a successful
\* authorize or revoke step on its key; a check-in never changes it.
C1_StatusChangesOnlyByAdmin ==
  [][\A r \in devices : \A r2 \in devices' :
       (KeyOf(r) = KeyOf(r2) /\ r.status # r2.status)
         => /\ AdminDone
            /\ last'.op \in {"authorize", "revoke"}
            /\ last'.code = 200
            /\ <<last'.company_key, last'.device_id>> = KeyOf(r)]_vars

\* C2 (as claimed): a check-in that starts when the last successful admin
\* action on its key was authorize reads AUTHORIZED and returns
\* authorized=true; when it was revoke it returns authorized=false with
\* status REVOKED.
C2_NextCheckInFollowsAdmin ==
  [][\A s \in Slots :
       /\ SelectStep(s) =>
            LET c == inflight'[s]
                k == <<c.company_key, c.device_id>>
            IN  lastAdmin[k] # "none" => c.row = lastAdmin[k]
       /\ CheckDone(s) =>
            /\ inflight[s].row = "AUTHORIZED" => last'.authorized
            /\ inflight[s].row = "REVOKED" =>
                 ~last'.authorized /\ last'.status = "REVOKED"]_vars

\* C3: a check-in whose SELECT found no row returns authorized=false with
\* status PENDING and leaves exactly one row for its key, PENDING, carrying
\* the metadata of the request.
C3_FirstCheckInCreatesPending ==
  [][\A s \in Slots :
       (CheckDone(s) /\ inflight[s].row = NoRow) =>
         LET c == inflight[s]
             rows == RowsOf(devices', c.company_key, c.device_id)
         IN  /\ last'.op = "check"
             /\ ~last'.authorized
             /\ last'.status = "PENDING"
             /\ Cardinality(rows) = 1
             /\ \A r \in rows :
                  /\ r.status = "PENDING"
                  /\ \A f \in Fields : r[f] = c.meta[f]]_vars

\* the first request of the run was a check-in; it found no row and returned
C3_Witness ==
  /\ nreq = 1
  /\ last.op = "check"
  /\ last.status = "PENDING"
  /\ \E r \in devices : KeyOf(r) = <<last.company_key, last.device_id>>
                        /\ r.hostname = "PC-9"

\* C4: the table holds at most one row per (company_key, device_id), and
\* exactly one for every key whose check-in has completed.
C4_OneRowPerKey ==
  /\ \A r1, r2 \in devices : KeyOf(r1) = KeyOf(r2) => r1 = r2
  /\ \A k \in checkedIn : Cardinality(RowsOf(devices, k[1], k[2])) = 1

\* check-ins with both payloads completed on one key and merged into one row
C4_Witness ==
  \E r \in devices :
    /\ KeyOf(r) \in checkedIn
    /\ r.hostname = "PC-7"
    /\ r.pc_name = "PC-7"

\* C5: authorize or revoke with a valid token on a key without a row answers
\* 404 and leaves the table as it was.
C5_AdminOnMissingRowIs404 ==
  [][(/\ AdminDone
      /\ last'.op \in {"authorize", "revoke"}
      /\ ~BadToken(last'.token)
      /\ RowsOf(devices, last'.company_key, last'.device_id) = {})
       => last'.code = 404 /\ devices' = devices]_vars

\* an authorize was answered 404 while other devices are stored
C5_Witness ==
  /\ last.op = "authorize"
  /\ last.code = 404
  /\ RowsOf(devices, last.company_key, last.device_id) = {}
  /\ devices # {}

\* C6 (as claimed): a check-in fills a field whose stored value is empty or
\* absent with the incoming value, and no check-in changes a field whose
\* stored value is non-empty.
C6_FillIfEmptyFirstWriteWins ==
  [][\A s \in Slots :
       CheckDone(s) =>
         LET c == inflight[s] IN
         \A r \in RowsOf(devices, c.company_key, c.device_id) :
           \E r2 \in RowsOf(devices', c.company_key, c.device_id) :
             \A f \in Fields :
               r2[f] = IF HasValue(r[f]) THEN r[f] ELSE c.meta[f]]_vars

\* C7 (as claimed): no check-in with a blank company_key or device_id is
\* answered, and no row with a blank key is stored.
C7_BlankKeyRejected ==
  /\ \A r \in devices : r.company_key \notin {"", " "} /\ r.device_id \notin {"", " "}
  /\ last.op = "check" =>
       last.company_key \notin {"", " "} /\ last.device_id \notin {"", " "}

\* C8: list, authorize and revoke with a missing or wrong token, or under an
\* empty ADMIN_TOKEN, answer 401 and leave the table as it was.
C8_BadTokenIs401 ==
  [][(/\ AdminDone
      /\ last'.op \in {"list", "authorize", "revoke"}
      /\ BadToken(last'.token))
       => last'.code = 401 /\ devices' = devices]_vars

\* the empty header token was sent to a server whose ADMIN_TOKEN is empty
C8_Witness ==
  /\ ADMIN_TOKEN = ""
  /\ last.op \in {"authorize", "revoke"}
  /\ last.token = ""
  /\ last.code = 401
  /\ RowsOf(devices, last.company_key, last.device_id) # {}

\* the tables that differ from db in the row of key k: without it, with it
\* freshly created, or with another status
StoresDifferingAt(db, k) ==
  {db \ RowsOf(db, k[1], k[2])}
    \cup {InsertOrReplace(db, NewDeviceRow(k[1], k[2], m, 0, 0)) : m \in Metadatas}
    \cup {UpdateStatus(db, k[1], k[2], st, 0) : st \in Statuses}

\* C9: an admin request with a bad token gets the same response from the
\* stored table and from any table that differs in the target device.
C9_UnauthorizedIndependentOfStore ==
  \A k \in ReqKeys, tok \in Tokens :
    BadToken(tok) =>
      \A alt \in StoresDifferingAt(devices, k) :
        /\ admin_authorize(devices, k[1], k[2], tok, now).code
             = admin_authorize(alt, k[1], k[2], tok, now).code
        /\ admin_revoke(devices, k[1], k[2], tok, now).code
             = admin_revoke(alt, k[1], k[2], tok, now).code
        /\ admin_list_devices(devices, k[1], tok)
             = admin_list_devices(alt, k[1], tok)

\* a revoke with a bad token was answered 401 for a device that is stored,
\* while another key of the requests has no row
C9_Witness ==
  /\ last.op = "revoke"
  /\ last.code = 401
  /\ RowsOf(devices, last.company_key, last.device_id) # {}
  /\ \E k \in ReqKeys : RowsOf(devices, k[1], k[2]) = {}

\* C10: a list request with a valid token returns the stored rows of the
\* company, each once, updated_at non-increasing (the empty sequence when the
\* company has no row).
C10_ListOrdered ==
  [][(AdminDone /\ last'.op = "list" /\ ~BadToken(last'.token)) =>
       LET q == last'.rows
           mine == {r \in devices : r.company_key = last'.company_key}
       IN  /\ last'.code = 200
           /\ {q[i] : i \in 1..Len(q)} = mine
           /\ Len(q) = Cardinality(mine)
           /\ \A i \in 1..Len(q) - 1 : q[i].updated_at >= q[i + 1].updated_at]_vars

\* a list returned two devices of one company, the more recent first, while
\* a device of another company is stored
C10_Witness ==
  /\ last.op = "list"
  /\ last.code = 200
  /\ Len(last.rows) = 2
  /\ last.rows[1].updated_at > last.rows[2].updated_at
  /\ \E r \in devices : r.company_key # last.company_key
\* C11: a check-in that found a row answers from the status it read alone:
\* authorized=true exactly for AUTHORIZED, otherwise authorized=false with
\* the status read, whatever metadata and timestamps the request and the
\* row carry.
C11_VerdictFromStatusAlone ==
  [][\A s \in Slots :
       (CheckDone(s) /\ inflight[s].row # NoRow) =>
         /\ last'.authorized = (inflight[s].row = "AUTHORIZED")
         /\ inflight[s].row \in {"PENDING", "REVOKED"} =>
              last'.status = inflight[s].row]_vars

\* a check-in on a REVOKED row that carries metadata was answered
C11_Witness ==
  /\ last.op = "check"
  /\ ~last.authorized
  /\ last.status = "REVOKED"
  /\ \E r \in RowsOf(devices, last.company_key, last.device_id) :
       r.status = "REVOKED" /\ r.pc_name = "PC-7"
\* C14: when a revoke on a key is the request completed last before a
\* check-in on that key writes, the check-in leaves exactly one row for the
\* key, REVOKED or a PENDING row it has just created; no stored row ever has
\* a status outside PENDING, AUTHORIZED, REVOKED.
C14_CheckInRevokeRace ==
  [][/\ \A r \in devices' : r.status \in Statuses
     /\ \A s \in Slots :
          (/\ CheckDone(s)
           /\ last.op = "revoke"
           /\ last.code \in {200, 404}
           /\ last.company_key = inflight[s].company_key
           /\ last.device_id = inflight[s].device_id)
            => LET c == inflight[s]
                   rows == RowsOf(devices', c.company_key, c.device_id)
               IN  /\ Cardinality(rows) = 1
                   /\ \A r \in rows :
                        \/ r.status = "REVOKED"
                        \/ r.status = "PENDING" /\ c.row = NoRow
                                                /\ r.created_at = now]_vars

\* a check-in that had read AUTHORIZED wrote after a revoke and left REVOKED
C14_Witness ==
  /\ last.op = "check"
  /\ last.authorized
  /\ \E r \in RowsOf(devices, last.company_key, last.device_id) :
       r.status = "REVOKED"
  /\ lastAdmin[<<last.company_key, last.device_id>>] = "REVOKED"

\* C15 (as claimed): no step changes created_at of a stored row.
C15_CreatedAtSetOnce ==
  [][\A r \in devices : \A r2 \in devices' :
       KeyOf(r) = KeyOf(r2) => r2.created_at = r.created_at]_vars

\* C16: a row is AUTHORIZED only if the last successful admin action on its
\* key was an authorize.
C16_AuthorizedOnlyByAuthorize ==
  \A r \in devices :
    r.status = "AUTHORIZED" => lastAdmin[KeyOf(r)] = "AUTHORIZED"

\* a device was authorized and a later check-in merged metadata into its row
C16_Witness ==
  \E r \in devices :
    /\ r.status = "AUTHORIZED"
    /\ lastAdmin[KeyOf(r)] = "AUTHORIZED"
    /\ r.hostname = "PC-9"
    /\ r.establishment = ""

\* C17: with a valid token and a stored row, authorize answers 200 and
\* leaves the row AUTHORIZED, revoke answers 200 and leaves it REVOKED,
\* whatever the status was.
C17_AdminTransitionsUnrestricted ==
  [][(/\ AdminDone
      /\ last'.op \in {"authorize", "revoke"}
      /\ ~BadToken(last'.token)
      /\ RowsOf(devices, last'.company_key, last'.device_id) # {})
       => /\ last'.code = 200
          /\ \A r \in RowsOf(devices', last'.company_key, last'.device_id) :
               r.status = IF last'.op = "authorize" THEN "AUTHORIZED"
                          ELSE "REVOKED"]_vars

\* the four requests of the run: a check-in created the device, a revoke, a
\* second check-in read REVOKED, then an authorize was answered 200
C17_Witness ==
  /\ nreq = 4
  /\ last.op = "authorize"
  /\ last.code = 200
  /\ \E s \in Slots :
       /\ inflight[s] # Idle
       /\ inflight[s].row = "REVOKED"
       /\ inflight[s].company_key = last.company_key
       /\ inflight[s].device_id = last.device_id
  /\ \E r \in RowsOf(devices, last.company_key, last.device_id) :
       r.status = "AUTHORIZED"

\* rows of db whose key is not (ck, did)
OtherRows(db, ck, did) == db \ RowsOf(db, ck, did)

\* C18: a step of a request on key k leaves the rows of all other keys as
\* they were, and a successful authorize or revoke changes nothing in k's
\* row but status and updated_at.
C18_Frame ==
  [][/\ \A s \in Slots :
          CheckDone(s) =>
            OtherRows(devices', inflight[s].company_key, inflight[s].device_id)
              = OtherRows(devices, inflight[s].company_key, inflight[s].device_id)
     /\ (AdminDone /\ last'.op \in {"authorize", "revoke"}) =>
          /\ OtherRows(devices', last'.company_key, last'.device_id)
               = OtherRows(devices, last'.company_key, last'.device_id)
          /\ \A r \in RowsOf(devices, last'.company_key, last'.device_id) :
               \E r2 \in RowsOf(devices', last'.company_key, last'.device_id) :
                 /\ r2.created_at = r.created_at
                 /\ \A f \in Fields : r2[f] = r[f]
     /\ (\A s \in Slots : ~CheckDone(s))
          /\ ~(AdminDone /\ last'.op \in {"authorize", "revoke"})
          => devices' = devices]_vars

\* an authorize was answered 200 while another device of the same company
\* is stored and still PENDING
C18_Witness ==
  /\ last.op = "authorize"
  /\ last.code = 200
  /\ \E r \in RowsOf(devices, last.company_key, last.device_id) :
       r.status = "AUTHORIZED" /\ r.hostname # NULL
  /\ \E r \in OtherRows(devices, last.company_key, last.device_id) :
       r.company_key = last.company_key /\ r.status = "PENDING"
\* C13 (as claimed): once all requests on a key have returned, status and
\* metadata of its row are those some serial order of the same requests
\* produces (created_at is left out of the comparison, which only asks less
\* than the claim does).
C13_SerialEquivalent ==
  Quiescent =>
    View(devices) \in {View(db) : db \in SerialOutcomes(Requests(ops))}

\* C19: a check-in that runs right after a check-in with the same key and
\* metadata has run (its read directly followed by its write) and returned,
\* with no other request in between, leaves status,
\* metadata and created_at of the row as the first one left them and returns
\* the same authorized value.
C19_CheckInIdempotent ==
  [][\A s \in Slots :
       LET n == Len(ops) IN
       (/\ CheckDone(s)
        /\ \A s2 \in Slots : s2 # s => inflight[s2] = Idle
        /\ n >= 3
        /\ ops[n].op = "select"
        /\ ops[n - 1].op \in {"insert", "update"}
        /\ ops[n - 2].op = "select"
        /\ ops[n].meta = inflight[s].meta
        /\ ops[n - 1].meta = inflight[s].meta
        /\ ops[n - 2].meta = inflight[s].meta)
         => /\ View(devices') = View(devices)
            /\ {r.created_at : r \in devices'} = {r.created_at : r \in devices}
            /\ last'.authorized = last.authorized]_vars

\* the same check-in created the device and then ran a second time
C19_Witness ==
  /\ Len(ops) = 4
  /\ ops[1].op = "select" /\ ops[2].op = "insert"
  /\ ops[3].op = "select" /\ ops[4].op = "update"
  /\ \A i \in 1..4 : ops[i].meta = ops[1].meta
  /\ Quiescent

\* C20: a check-in answers authorized=true only if its SELECT read
\* AUTHORIZED from the stored row of its key, and a SELECT that runs while
\* the last successful admin action on the key is a revoke never reads
\* AUTHORIZED.
C20_AuthorizedOnlyIfRead ==
  [][\A s \in Slots :
       /\ SelectStep(s) =>
            LET c == inflight'[s] IN
            /\ c.row = "AUTHORIZED" =>
                 \E r \in RowsOf(devices, c.company_key, c.device_id) :
                   r.status = "AUTHORIZED"
            /\ lastAdmin[<<c.company_key, c.device_id>>] = "REVOKED" =>
                 c.row # "AUTHORIZED"
       /\ (CheckDone(s) /\ last'.authorized) =>
            inflight[s].row = "AUTHORIZED"]_vars

\* a check-in was answered authorized=true for an authorized device while a
\* PENDING device of the same company is stored
C20_Witness ==
  /\ last.op = "check"
  /\ last.authorized
  /\ lastAdmin[<<last.company_key, last.device_id>>] = "AUTHORIZED"
  /\ \E r \in devices :
       /\ r.company_key = last.company_key
       /\ r.device_id # last.device_id
       /\ r.status = "PENDING"
====
